---------------------------- MODULE Spec2Model ----------------------------
(***************************************************************************)
(* A model of attempts/views.py: the answer normaliser (normalize_answer), *)
(* the automatic scorer (calculate_auto_score) and the submission handler  *)
(* (submit_attempt) over the Attempt and AttemptAudio tables.              *)
(*                                                                         *)
(* Strings are sequences of characters; a character is the TLA+ string     *)
(* that names one code point.  Python floats are IEEE-754 binary64 values: *)
(* a float is a 53-bit significand, held in limbs, and an exponent, and    *)
(* every operation rounds to nearest, ties to even.  A band score is such  *)
(* a float: HalfBands(13) is 6.5.                                          *)
(***************************************************************************)
EXTENDS Integers, Sequences, FiniteSets, TLC

VARIABLES norm, scorer, db, web

vars == <<norm, scorer, db, web>>

---------------------------------------------------------------------------
(* Bounds of the model.                                                    *)

\* longest string handed to normalize_answer
MaxStrLen == 3
\* most elements of a list handed to normalize_answer
MaxListLen == 2
\* most subquestions of an exam whose answers are drawn in every combination
MaxUnits == 2
\* most subquestions of an exam graded with a chosen number of right answers
\* (an IELTS reading or listening paper has 40)
MaxTotal == 40
\* most requests handled one after the other
MaxRequests == 3
\* requests handled at the same time
NumProcs == 2

---------------------------------------------------------------------------
(* Characters and strings.                                                 *)

\* The characters the model draws answers from.  "U+0130" is LATIN CAPITAL
\* LETTER I WITH DOT ABOVE, the one code point whose str.lower() is two
\* code points ("i" followed by "U+0307", COMBINING DOT ABOVE).
Alphabet == {"B", "b", "x", "2", " ", "U+0130"}

\* str.isspace() for one character, as str.strip() uses it
IsSpace(c) == c = " "

\* str.lower() of a one-character string: a string, not a character
Lower(c) ==
    CASE c = "A" -> <<"a">>
      [] c = "B" -> <<"b">>
      [] c = "C" -> <<"c">>
      [] c = "X" -> <<"x">>
      [] c = "U+0130" -> <<"i", "U+0307">>
      [] OTHER -> <<c>>

RECURSIVE LStrip(_)
LStrip(s) ==
    IF s = <<>> THEN <<>>
    ELSE IF IsSpace(Head(s)) THEN LStrip(Tail(s)) ELSE s

RECURSIVE RStrip(_)
RStrip(s) ==
    IF s = <<>> THEN <<>>
    ELSE IF IsSpace(s[Len(s)]) THEN RStrip(SubSeq(s, 1, Len(s) - 1)) ELSE s

\* str.strip()
Strip(s) == RStrip(LStrip(s))

---------------------------------------------------------------------------
(* Python values an answer can be: None, a str, or a list of str.          *)

PyNone == [tag |-> "None", v |-> <<>>]
PyStr(s) == [tag |-> "str", v |-> s]
PyList(l) == [tag |-> "list", v |-> l]

\* bool(ans): None, "" and [] are falsy
Truthy(ans) == ans.tag # "None" /\ ans.v # <<>>

\* The outcome of a call: a returned value or a raised exception.
Return(x) == [exc |-> "none", val |-> x]
Raise(e) == [exc |-> e, val |-> <<>>]

\* seq[0]: raises IndexError on an empty sequence
Index0(s) == IF s = <<>> THEN Raise("IndexError") ELSE Return(s[1])

\* normalize_answer(ans), lines 106-113
NormalizeAnswer(ans) ==
    IF ~Truthy(ans) THEN Return(<<>>)
    ELSE LET first == IF ans.tag = "list" THEN Index0(ans.v) ELSE Return(ans.v)
         IN  IF first.exc # "none" THEN first
             ELSE LET s == Strip(first.val)
                  IN  IF s # <<>> THEN Return(Lower(s[1])) ELSE Return(<<>>)

---------------------------------------------------------------------------
(* IEEE-754 binary64 arithmetic.  A natural number is a sequence of limbs  *)
(* in base 2^16, most significant first, with no leading zero limb (zero   *)
(* is the empty sequence).  A positive double is                           *)
(* [zero |-> FALSE, m |-> a 53-bit natural, e |-> the exponent of its last *)
(* bit]: its value is m * 2^e.                                             *)

\* bits of the significand of a binary64
Precision == 53

LimbBits == 16
LimbBase == 2 ^ LimbBits

FZero == [zero |-> TRUE, m |-> <<>>, e |-> 0]

RECURSIVE BitLen(_)
\* number of bits of a small n >= 0
BitLen(n) == IF n = 0 THEN 0 ELSE 1 + BitLen(n \div 2)

RECURSIVE Norm(_)
\* leading zero limbs removed
Norm(x) ==
    IF x = <<>> THEN <<>>
    ELSE IF Head(x) = 0 THEN Norm(Tail(x)) ELSE x

RECURSIVE ToInt(_)
ToInt(x) ==
    IF x = <<>> THEN 0
    ELSE LimbBase * ToInt(SubSeq(x, 1, Len(x) - 1)) + x[Len(x)]

NatBitLen(x) == IF x = <<>> THEN 0 ELSE LimbBits * (Len(x) - 1) + BitLen(x[1])

IsOdd(x) == x # <<>> /\ x[Len(x)] % 2 = 1

RECURSIVE MulLow(_, _, _)
\* the last n limbs of x times a small k: the low n limbs of the product
\* and the carry out of them
MulLow(x, k, n) ==
    IF n = 0 THEN [limbs |-> <<>>, carry |-> 0]
    ELSE LET prev == MulLow(x, k, n - 1)
             v == x[Len(x) - n + 1] * k + prev.carry
         IN  [limbs |-> <<v % LimbBase>> \o prev.limbs, carry |-> v \div LimbBase]

\* x * k for 0 < k < 2^15
MulSmall(x, k) ==
    LET p == MulLow(x, k, Len(x)) IN Norm(<<p.carry>> \o p.limbs)

RECURSIVE DivHigh(_, _, _)
\* long division of the first i limbs of x by d, 0 < d < 2^15: quotient
\* limbs and remainder
DivHigh(x, d, i) ==
    IF i = 0 THEN [q |-> <<>>, r |-> 0]
    ELSE LET prev == DivHigh(x, d, i - 1)
             v == prev.r * LimbBase + x[i]
         IN  [q |-> Append(prev.q, v \div d), r |-> v % d]

\* x \div d and x % d
DivSmall(x, d) ==
    LET p == DivHigh(x, d, Len(x)) IN [q |-> Norm(p.q), r |-> p.r]

\* x * 2^s
ShiftLeft(x, s) ==
    IF x = <<>> THEN <<>>
    ELSE MulSmall(x, 2 ^ (s % LimbBits)) \o [i \in 1..(s \div LimbBits) |-> 0]

\* x \div 2^s, and whether a non-zero bit was shifted out
ShiftRight(x, s) ==
    LET w == s \div LimbBits
    IN  IF w >= Len(x) THEN [q |-> <<>>, lost |-> x # <<>>]
        ELSE LET d == DivSmall(SubSeq(x, 1, Len(x) - w), 2 ^ (s % LimbBits))
                 low == SubSeq(x, Len(x) - w + 1, Len(x))
             IN  [q |-> d.q,
                  lost |-> d.r # 0 \/ \E i \in 1..Len(low) : low[i] # 0]

RECURSIVE Inc(_)
\* x + 1
Inc(x) ==
    IF x = <<>> THEN <<1>>
    ELSE IF x[Len(x)] + 1 < LimbBase THEN [x EXCEPT ![Len(x)] = @ + 1]
    ELSE Append(Inc(SubSeq(x, 1, Len(x) - 1)), 0)

\* the significand `keep` rounded up when the bits cut off (the last bit of
\* y.q, then y.lost and sticky) are more than half, or half and keep is odd
Rounded(y, keep, sticky) ==
    IF IsOdd(y.q) /\ (sticky \/ y.lost \/ IsOdd(keep)) THEN Inc(keep) ELSE keep

\* the double kept * 2^e, where rounding up may have made kept one bit longer
Renormalised(kept, e) ==
    IF NatBitLen(kept) > Precision
    THEN [zero |-> FALSE, m |-> ShiftRight(kept, 1).q, e |-> e + 1]
    ELSE [zero |-> FALSE, m |-> kept, e |-> e]

\* The double nearest to x * 2^e (plus a non-zero tail below the last bit
\* when sticky): round to nearest, ties to even.
RoundToDouble(x, sticky, e) ==
    IF x = <<>> THEN FZero
    ELSE IF NatBitLen(x) <= Precision
    THEN [zero |-> FALSE, m |-> ShiftLeft(x, Precision - NatBitLen(x)),
          e |-> e - (Precision - NatBitLen(x))]
    ELSE \* y is x without its last s - 1 bits, s the number of bits to cut
         LET y == ShiftRight(x, NatBitLen(x) - Precision - 1)
         IN  Renormalised(Rounded(y, ShiftRight(y.q, 1).q, sticky),
                          e + NatBitLen(x) - Precision)

\* c / t for ints 0 <= c < 2^16, 0 < t < 2^15 (true division, correctly
\* rounded): the quotient is cut after more than Precision + 1 bits
FloatDivInts(c, t) ==
    LET g == Precision + BitLen(t) + 1
        d == DivSmall(ShiftLeft(Norm(<<c>>), g), t)
    IN  RoundToDouble(d.q, d.r # 0, 0 - g)

\* x * k for a double x and an int 0 < k < 2^15
FloatMulInt(x, k) ==
    IF x.zero THEN FZero ELSE RoundToDouble(MulSmall(x.m, k), FALSE, x.e)

\* x / k for a double x and an int 0 < k < 2^15
FloatDivInt(x, k) ==
    IF x.zero THEN FZero
    ELSE LET g == BitLen(k) + 1
             d == DivSmall(ShiftLeft(x.m, g), k)
         IN  RoundToDouble(d.q, d.r # 0, x.e - g)

\* round(x) for a double x >= 0: the nearest int, ties to even
PyRound(x) ==
    IF x.zero THEN 0
    ELSE IF x.e >= 0 THEN ToInt(ShiftLeft(x.m, x.e))
    ELSE LET y == ShiftRight(x.m, (0 - x.e) - 1)
             ipart == ToInt(ShiftRight(y.q, 1).q)
             up == IsOdd(y.q) /\ (y.lost \/ ipart % 2 = 1)
         IN  IF up THEN ipart + 1 ELSE ipart

\* float(n) for an int 0 <= n < 2^16
IntToFloat(n) == RoundToDouble(Norm(<<n>>), FALSE, 0)

\* x <= y for doubles x, y >= 0
FloatLeq(x, y) ==
    IF x.zero THEN TRUE
    ELSE IF y.zero THEN FALSE
    ELSE IF x.e # y.e THEN x.e < y.e
    ELSE \/ x.m = y.m
         \/ \E i \in 1..Len(x.m) :
               /\ x.m[i] < y.m[i]
               /\ \A j \in 1..(i - 1) : x.m[j] = y.m[j]

\* min(x, y): the first argument unless the second is smaller
FloatMin(x, y) == IF FloatLeq(x, y) THEN x ELSE y

\* the band score h / 2 for a number h of half bands
HalfBands(h) == FloatDivInt(IntToFloat(h), 2)

\* lines 147-158 with the clamp of line 158 dropped
BandOfUnclamped(correct_count, total_questions) ==
    IF total_questions = 0 THEN FZero
    ELSE LET percentage == FloatMulInt(FloatDivInts(correct_count, total_questions), 100)
             raw_band == FloatDivInt(percentage, 10)
         IN  FloatDivInt(IntToFloat(PyRound(FloatMulInt(raw_band, 2))), 2)

\* lines 147-158 of calculate_auto_score: the band for the two counters
BandOf(correct_count, total_questions) ==
    IF total_questions = 0 THEN FZero
    ELSE LET percentage == FloatMulInt(FloatDivInts(correct_count, total_questions), 100)
             raw_band == FloatDivInt(percentage, 10)
             band == FloatDivInt(IntToFloat(PyRound(FloatMulInt(raw_band, 2))), 2)
         IN  FloatMin(band, IntToFloat(9))

---------------------------------------------------------------------------
(* Exams and answer mappings.                                              *)

SectionTypes == {"reading", "listening", "writing", "speaking"}

\* how the subquestions are nested: all under one question of one passage
\* (or audio), or each under a question and passage of its own
Layouts == {"flat", "split"}

Nested(units, layout) ==
    IF layout = "flat" THEN << <<units>> >>
    ELSE [i \in 1..Len(units) |-> << <<units[i]>> >>]

\* an exam of the given section type with the given subquestions
ExamOf(st, units, layout) ==
    [section_type |-> st,
     reading_passages |-> IF st = "listening" THEN <<>> ELSE Nested(units, layout),
     listening_audios |-> IF st = "listening" THEN Nested(units, layout) ELSE <<>>]

\* A form key is a sequence of pieces: f"q_{id}" is <<"q_", "<id>">> and
\* the repeated-field form "q_<id>[]" is <<"q_", "<id>", "[]">>.
QKey(id) == <<"q_", ToString(id)>>

RECURSIVE FlattenRange(_, _, _)
\* the elements of the lists ss[lo], ..., ss[hi], in order (the range is
\* halved so that the nesting stays shallow)
FlattenRange(ss, lo, hi) ==
    IF lo > hi THEN <<>>
    ELSE IF lo = hi THEN ss[lo]
    ELSE LET mid == (lo + hi) \div 2
         IN  FlattenRange(ss, lo, mid) \o FlattenRange(ss, mid + 1, hi)

\* the list of the elements of the lists of a list, in order
Flatten(ss) == FlattenRange(ss, 1, Len(ss))

\* the subquestions the loops of lines 121-145 visit, in order
LeafUnits(exam) ==
    IF exam.section_type = "reading" THEN Flatten(Flatten(exam.reading_passages))
    ELSE IF exam.section_type = "listening" THEN Flatten(Flatten(exam.listening_audios))
    ELSE <<>>

\* lines 127-132 comparing the answers as they are, not normalised: a
\* plausible slip
CountsAsCorrectRaw(subq, answers) ==
    IF QKey(subq.id) \in DOMAIN answers
    THEN Return(answers[QKey(subq.id)] = subq.correct_answer)
    ELSE Return(FALSE)

\* lines 127-132 with the membership test of line 127 replaced by
\* answers.get(question_key): an absent answer read as None
CountsAsCorrectGet(subq, answers) ==
    LET given == IF QKey(subq.id) \in DOMAIN answers
                 THEN answers[QKey(subq.id)] ELSE PyNone
        student_answer == NormalizeAnswer(given)
        correct_answer == NormalizeAnswer(subq.correct_answer)
    IN  IF student_answer.exc # "none" THEN student_answer
        ELSE IF correct_answer.exc # "none" THEN correct_answer
        ELSE Return(student_answer.val = correct_answer.val)

\* lines 126-132 (and 139-145): whether one subquestion adds to
\* correct_count, or the exception the comparison raises
CountsAsCorrect(subq, answers) ==
    IF QKey(subq.id) \in DOMAIN answers
    THEN LET student_answer == NormalizeAnswer(answers[QKey(subq.id)])
             correct_answer == NormalizeAnswer(subq.correct_answer)
         IN  IF student_answer.exc # "none" THEN student_answer
             ELSE IF correct_answer.exc # "none" THEN correct_answer
             ELSE Return(student_answer.val = correct_answer.val)
    ELSE Return(FALSE)

RECURSIVE CountLoop(_, _, _, _)
\* the loops of lines 121-145 over subquestions lo..hi: what they add to the
\* two counters, or the first exception raised (the range is halved so that
\* the nesting stays shallow; the counters are sums, so the order of the
\* additions does not matter)
CountLoop(units, answers, lo, hi) ==
    IF lo > hi THEN [exc |-> "none", correct_count |-> 0, total_questions |-> 0]
    ELSE IF lo = hi
    THEN LET hit == CountsAsCorrect(units[lo], answers)
         IN  [exc |-> hit.exc,
              correct_count |-> IF hit.exc = "none" /\ hit.val THEN 1 ELSE 0,
              total_questions |-> 1]
    ELSE LET mid == (lo + hi) \div 2
             left == CountLoop(units, answers, lo, mid)
             right == CountLoop(units, answers, mid + 1, hi)
         IN  IF left.exc # "none" THEN left
             ELSE [exc |-> right.exc,
                   correct_count |-> left.correct_count + right.correct_count,
                   total_questions |-> left.total_questions + right.total_questions]

\* lines 147-158 after the loops left the counters c: the counters and the
\* returned score (none when the loops raised)
ScoreOfCounters(c) ==
    [exc |-> c.exc, correct_count |-> c.correct_count,
     total_questions |-> c.total_questions,
     score |-> IF c.exc = "none"
               THEN BandOf(c.correct_count, c.total_questions) ELSE FZero]

\* the loops of lines 121-145 over all of the subquestions `units`
CountAll(units, answers) == CountLoop(units, answers, 1, Len(units))

\* calculate_auto_score(exam, answers), lines 116-158: the counters and the
\* returned score
CalculateAutoScore(exam, answers) ==
    ScoreOfCounters(CountAll(LeafUnits(exam), answers))

---------------------------------------------------------------------------
(* The tables submit_attempt reads and writes.  A nullable column holds    *)
(* <<>> (NULL) or <<v>>.  `tables` is [attempts, audios]: attempts maps    *)
(* <<exam id, student>> to the Attempt row of that pair, audios maps       *)
(* <<exam id, student, part id>> to the uploaded file of an AttemptAudio   *)
(* row.                                                                    *)

Null == <<>>
Some(v) == <<v>>

\* request.user.profile.role of the users of the model
Role(user) == IF user = "meg" THEN "mentor" ELSE "student"

\* lines 24-27: the group of the student's GroupStudent row, or None
StudentGroup(user) == IF user = "ann" THEN Some("group1") ELSE Null

\* the Exam rows: a reading and a listening exam of two subquestions, a
\* writing and a speaking exam
ExamUnits ==
    <<[id |-> 1, correct_answer |-> PyStr(<<"b">>)],
      [id |-> 2, correct_answer |-> PyStr(<<"c">>)]>>

ExamTable ==
    <<ExamOf("reading", ExamUnits, "flat"), ExamOf("listening", ExamUnits, "split"),
      ExamOf("writing", <<>>, "flat"), ExamOf("speaking", <<>>, "flat")>>

ExamIds == DOMAIN ExamTable

\* the row get_or_create inserts, lines 30-38 (the columns the defaults do
\* not name are NULL)
NewAttempt(user, now) ==
    [status |-> "submitted", group |-> StudentGroup(user), submitted_at |-> Some(now),
     answers |-> Null, completed_at |-> Null, reading_score |-> Null,
     listening_score |-> Null, total_score |-> Null]

\* an attempt the student has started and not submitted
StartedAttempt(user) ==
    [status |-> "in_progress", group |-> StudentGroup(user), submitted_at |-> Null,
     answers |-> Null, completed_at |-> Null, reading_score |-> Null,
     listening_score |-> Null, total_score |-> Null]

\* a JsonResponse
Response(status, body) == [status |-> status, body |-> body]

\* line 40 testing for 'completed' alone: a plausible slip
AlreadySubmittedIfCompleted(created, attempt) ==
    ~created /\ attempt.status = "completed"

\* line 40: the attempt was there and is no longer in progress
AlreadySubmitted(created, attempt) ==
    ~created /\ attempt.status # "in_progress"

\* Lines 30-41: Attempt.objects.get_or_create for the pair `key`, with the
\* row it inserts when there is none, and the test of line 40.
GetOrCreate(tables, key, row) ==
    IF key \in DOMAIN tables.attempts
    THEN IF AlreadySubmitted(FALSE, tables.attempts[key])
         THEN [resp |-> Response(400, "Attempt already submitted"), tables |-> tables,
               attempt |-> Null]
         ELSE [resp |-> Response(0, "go on"), tables |-> tables,
               attempt |-> Some(tables.attempts[key])]
    ELSE IF AlreadySubmitted(TRUE, row)
         THEN [resp |-> Response(400, "Attempt already submitted"),
               tables |-> [tables EXCEPT !.attempts = (key :> row) @@ @],
               attempt |-> Null]
         ELSE [resp |-> Response(0, "go on"),
               tables |-> [tables EXCEPT !.attempts = (key :> row) @@ @],
               attempt |-> Some(row)]

\* Lines 14-41: the checks and the get_or_create of the Attempt row.  The
\* outcome is the response that ends the request, or status 0 and the
\* attempt object the request goes on with.  get_object_or_404 raises
\* Http404, an Exception, which line 100 turns into the 500 response.
Begin(tables, req, now) ==
    IF req.method # "POST"
    THEN [resp |-> Response(405, "POST method required"), tables |-> tables,
          attempt |-> Null]
    ELSE IF req.exam_id \notin ExamIds
    THEN [resp |-> Response(500, "Server error"), tables |-> tables, attempt |-> Null]
    ELSE IF Role(req.user) # "student"
    THEN [resp |-> Response(403, "Only students can submit attempts"),
          tables |-> tables, attempt |-> Null]
    ELSE GetOrCreate(tables, <<req.exam_id, req.user>>, NewAttempt(req.user, now))

\* line 46: the key without a trailing "[]"
NormKey(key) ==
    IF key # <<>> /\ key[Len(key)] = "[]" THEN SubSeq(key, 1, Len(key) - 1) ELSE key

RECURSIVE CollectAnswers(_, _)
\* Lines 44-51 over the first n fields of request.POST, a sequence of
\* [key, values] in the order of the form: the answers dict.
CollectAnswers(post, n) ==
    IF n = 0 THEN <<>>
    ELSE LET prev == CollectAnswers(post, n - 1)
             norm_key == NormKey(post[n].key)
             values == post[n].values
         IN  IF norm_key # <<>> /\ norm_key[1] \in {"q_", "part_", "task_"}
             THEN (norm_key :> (IF Len(values) > 1 THEN PyList(values)
                                ELSE PyStr(values[1]))) @@ prev
             ELSE prev

\* int(text) of line 59 for the texts the model sends: an int (big when it
\* is beyond the range of an integer column) or ValueError
ParseInt(text) ==
    CASE text = "1" -> [exc |-> "none", val |-> 1, big |-> FALSE]
      [] text = "2" -> [exc |-> "none", val |-> 2, big |-> FALSE]
      [] text = "99999999999999999999" -> [exc |-> "none", val |-> 0, big |-> TRUE]
      [] OTHER -> [exc |-> "ValueError", val |-> 0, big |-> FALSE]

RECURSIVE StoreAudio(_, _, _, _)
\* Lines 55-75 over the first n files of request.FILES, a sequence of
\* [key, part, file] where key ends the field name ("_audio" for an upload
\* this loop takes) and part is the text before it.  A part the int() of
\* line 59 rejects is skipped; an int the part_id column cannot hold makes
\* get_or_create raise, and nothing catches that before line 100.
StoreAudio(tables, attempt_key, files, n) ==
    IF n = 0 THEN [exc |-> "none", tables |-> tables]
    ELSE LET prev == StoreAudio(tables, attempt_key, files, n - 1)
             f == files[n]
             part_id == ParseInt(f.part)
             row == attempt_key \o <<part_id.val>>
         IN  IF prev.exc # "none" THEN prev
             ELSE IF f.key # "_audio" THEN prev
             ELSE IF part_id.exc # "none" THEN prev
             ELSE IF part_id.big THEN [exc |-> "DataError", tables |-> prev.tables]
             ELSE [exc |-> "none",
                   tables |-> [prev.tables EXCEPT !.audios = (row :> f.file) @@ @]]

\* lines 84-87 with the two score columns swapped: a plausible slip
ScoreColumnSwapped(section_type) ==
    IF section_type = "reading" THEN "listening_score" ELSE "reading_score"

\* lines 84-87: the column the score of a section is written to
ScoreColumn(section_type) ==
    IF section_type = "reading" THEN "reading_score" ELSE "listening_score"

\* lines 78-79 and 53 on the attempt object
Sent(attempt, answers, now) ==
    [attempt EXCEPT !.answers = Some(answers), !.status = "submitted",
                    !.submitted_at = Some(now)]

\* lines 84-90 on the attempt object, with the outcome `auto` of
\* calculate_auto_score
WithScore(attempt, section_type, auto, now) ==
    [exc |-> auto.exc, scored |-> TRUE,
     attempt |-> [attempt EXCEPT ![ScoreColumn(section_type)] = Some(auto.score),
                                 !.total_score = Some(auto.score),
                                 !.status = "completed",
                                 !.completed_at = Some(now)]]

\* Lines 77-90 on the attempt object: the object attempt.save() writes, and
\* whether calculate_auto_score was called.
Graded(attempt, exam, answers, now) ==
    IF exam.section_type \in {"reading", "listening"}
    THEN WithScore(Sent(attempt, answers, now), exam.section_type,
                   CalculateAutoScore(exam, answers), now)
    ELSE [exc |-> "none", scored |-> FALSE, attempt |-> Sent(attempt, answers, now)]

\* Lines 43-75 for a request Begin let through: the tables after the
\* uploads `stored`, and the 500 response of line 100 when one of them
\* raised (status 0: the request goes on).
UploadsOutcome(stored) ==
    [resp |-> IF stored.exc # "none" THEN Response(500, "Server error")
              ELSE Response(0, "go on"),
     tables |-> stored.tables]

Uploads(tables, req) ==
    UploadsOutcome(StoreAudio(tables, <<req.exam_id, req.user>>, req.files, Len(req.files)))

\* Lines 92-104 with the object `graded` of lines 77-90: attempt.save()
\* writes every column of the object over the row.
SaveOutcome(tables, key, graded) ==
    IF graded.exc # "none"
    THEN [resp |-> Response(500, "Server error"), tables |-> tables, scored |-> TRUE]
    ELSE [resp |-> Response(200, "Javoblar muvaffaqiyatli yuborildi!"),
          tables |-> [tables EXCEPT !.attempts = (key :> graded.attempt) @@ @],
          scored |-> graded.scored]

\* lines 77-98 with the attempt object the request holds: the tables and
\* the response
Save(tables, req, attempt, now) ==
    SaveOutcome(tables, <<req.exam_id, req.user>>,
                Graded(attempt, ExamTable[req.exam_id],
                       CollectAnswers(req.post, Len(req.post)), now))

\* lines 77-104 after the uploads of lines 55-75 came out as u
AfterUploads(u, req, attempt, now) ==
    IF u.resp.status # 0
    THEN [resp |-> u.resp, tables |-> u.tables, scored |-> FALSE]
    ELSE Save(u.tables, req, attempt, now)

\* lines 43-104 after lines 14-41 came out as b
AfterBegin(b, req, now) ==
    IF b.resp.status # 0
    THEN [resp |-> b.resp, tables |-> b.tables, scored |-> FALSE]
    ELSE AfterUploads(Uploads(b.tables, req), req, b.attempt[1], now)

\* submit_attempt(request, exam_id), lines 13-104, run from start to end
SubmitAttempt(tables, req, now) == AfterBegin(Begin(tables, req, now), req, now)

---------------------------------------------------------------------------
(* The inputs the calls are made with.                                     *)

StringsUpTo(n) == UNION {[1..k -> Alphabet] : k \in 0..n}

\* what follows the first element of a list answer
TailsUpTo(n) == UNION {[1..k -> {<<"x">>, <<>>}] : k \in 0..n}

\* the values normalize_answer is called with
AnswerValues ==
    {PyNone, PyList(<<>>)}
    \cup {PyStr(s) : s \in StringsUpTo(MaxStrLen)}
    \cup {PyList(<<s>> \o t) : s \in StringsUpTo(MaxStrLen), t \in TailsUpTo(MaxListLen - 1)}

Letters == <<"a", "b", "c">>
Capitals == <<"A", "B", "C">>

\* subquestion i of a graded paper: the correct letters run a, b, c, a, ...
PaperUnit(i) == [id |-> i, correct_answer |-> PyStr(<<Letters[(i % 3) + 1]>>)]

\* an answer to subquestion i that names its correct letter, in one of the
\* shapes a form sends
RightAnswer(i) ==
    CASE i % 4 = 0 -> PyStr(<<Letters[(i % 3) + 1]>>)
      [] i % 4 = 1 -> PyStr(<<Capitals[(i % 3) + 1]>>)
      [] i % 4 = 2 -> PyStr(<<" ", Capitals[(i % 3) + 1], "2">>)
      [] OTHER -> PyList(<< <<Letters[(i % 3) + 1]>>, <<"x">> >>)

\* a paper of total subquestions and answers of which the first `right` are
\* right and the others are wrong (rest = "wrong") or not given
PaperAnswers(total, right, rest) ==
    [k \in {QKey(i) : i \in 1..(IF rest = "wrong" THEN total ELSE right)} |->
        LET i == CHOOSE j \in 1..total : QKey(j) = k
        IN  IF i <= right THEN RightAnswer(i) ELSE PyStr(<<"x">>)]

\* correct answers and submitted values of the small exams
CorrectPool == {PyNone, PyStr(<<>>), PyStr(<<" ", "B">>)}
SubmittedPool ==
    {PyStr(<<>>), PyStr(<<"b", "2">>), PyStr(<<"x">>),
     PyList(<< <<"B">>, <<"x">> >>), PyList(<<>>)}

\* every answer mapping over the keys of n subquestions (a key may be absent)
\* with, or without, a key that names no subquestion
SmallAnswers(n) ==
    {a @@ extra : a \in UNION {[{QKey(i) : i \in ids} -> SubmittedPool] : ids \in SUBSET (1..n)},
                  extra \in {<<>>, [k \in {<<"task_", "1">>} |-> PyStr(<<"b">>)]}}

SmallUnits(n) ==
    {[i \in 1..n |-> [id |-> i, correct_answer |-> ca[i]]] : ca \in [1..n -> CorrectPool]}

---------------------------------------------------------------------------
(* The idle values of the parts of the state a specification leaves alone. *)

NormIdle == [pc |-> "idle", ans |-> PyNone, ret |-> Return(<<>>)]

NoScore == [exc |-> "none", correct_count |-> 0, total_questions |-> 0, score |-> FZero]

ScorerIdle ==
    [pc |-> "idle", exam |-> ExamOf("writing", <<>>, "flat"), answers |-> <<>>,
     ret |-> NoScore]

---------------------------------------------------------------------------
(* normalize_answer called on one value.                                   *)

InitNorm ==
    /\ \E a \in AnswerValues : norm = [pc |-> "call", ans |-> a, ret |-> Return(<<>>)]
    /\ scorer = ScorerIdle
    /\ db = <<>>
    /\ web = <<>>

CallNormalizeAnswer ==
    /\ norm.pc = "call"
    /\ norm' = [norm EXCEPT !.pc = "done", !.ret = NormalizeAnswer(norm.ans)]
    /\ UNCHANGED <<scorer, db, web>>

NextNorm == CallNormalizeAnswer

SpecNorm == InitNorm /\ [][NextNorm]_vars

---------------------------------------------------------------------------
(* calculate_auto_score called on one exam and one answer mapping.         *)

\* a graded paper: total subquestions, the first `right` answered right
InitPaper ==
    \E st \in {"reading", "listening"}, layout \in Layouts, total \in 0..MaxTotal,
       rest \in {"wrong", "absent"} :
        \E right \in 0..total :
            scorer = [pc |-> "call",
                      exam |-> ExamOf(st, [i \in 1..total |-> PaperUnit(i)], layout),
                      answers |-> PaperAnswers(total, right, rest),
                      ret |-> NoScore]

\* a small exam with every combination of correct and submitted answers
InitSmall ==
    \E st \in {"reading", "listening", "writing"}, n \in 0..MaxUnits :
        \E units \in SmallUnits(n), a \in SmallAnswers(n) :
            scorer = [pc |-> "call", exam |-> ExamOf(st, units, "flat"),
                      answers |-> a, ret |-> NoScore]

InitScore ==
    /\ InitPaper \/ InitSmall
    /\ norm = NormIdle
    /\ db = <<>>
    /\ web = <<>>

CallCalculateAutoScore ==
    /\ scorer.pc = "call"
    /\ scorer' = [scorer EXCEPT !.pc = "done",
                                !.ret = CalculateAutoScore(scorer.exam, scorer.answers)]
    /\ UNCHANGED <<norm, db, web>>

NextScore == CallCalculateAutoScore

SpecScore == InitScore /\ [][NextScore]_vars

---------------------------------------------------------------------------
(* The requests sent to submit_attempt.                                    *)

Field(key, values) == [key |-> key, values |-> values]
Upload(key, part, file) == [key |-> key, part |-> part, file |-> file]

\* both subquestions right: one radio field, one repeated field
PostRight ==
    <<Field(<<"csrfmiddlewaretoken">>, << <<"t">> >>),
      Field(<<"q_", "1">>, << <<"B">> >>),
      Field(<<"q_", "2", "[]">>, << <<"c">>, <<"x">> >>)>>
\* the first subquestion right, the second wrong
PostHalf == <<Field(<<"q_", "1">>, << <<" ", "b">> >>), Field(<<"q_", "2">>, << <<"x">> >>)>>
PostEssay == <<Field(<<"task_", "1">>, << <<"e", "s", "s", "a", "y">> >>)>>
PostSpoken == <<Field(<<"part_", "1">>, << <<>> >>)>>

\* speaking_part_1_audio
OneAudio == <<Upload("_audio", "1", "a.webm")>>
\* a second take of part 1, a field int() cannot read and one that is no audio
Retake ==
    <<Upload("_audio", "1", "b.webm"), Upload("_audio", "x", "c.webm"),
      Upload("_image", "2", "d.png")>>
\* part 1, then a part number no integer column holds
TooBig ==
    <<Upload("_audio", "1", "a.webm"),
      Upload("_audio", "99999999999999999999", "e.webm")>>

Request(method, user, exam_id, post, files) ==
    [method |-> method, user |-> user, exam_id |-> exam_id, post |-> post, files |-> files]

Requests ==
    {Request("POST", "ann", 1, PostRight, <<>>),
     Request("POST", "ann", 1, PostHalf, <<>>),
     Request("POST", "ann", 1, <<>>, TooBig),
     Request("POST", "ann", 2, PostRight, <<>>),
     Request("POST", "ann", 3, PostEssay, <<>>),
     Request("POST", "ann", 4, PostSpoken, OneAudio),
     Request("POST", "ann", 4, PostSpoken, Retake),
     Request("POST", "ann", 4, PostSpoken, TooBig),
     Request("POST", "ann", 0, <<>>, <<>>),
     Request("POST", "bob", 1, PostHalf, <<>>),
     Request("POST", "meg", 1, PostRight, <<>>),
     Request("GET", "ann", 1, <<>>, <<>>),
     Request("GET", "ann", 3, <<>>, <<>>)}

NoRequest == Request("none", "none", 0, <<>>, <<>>)

\* the tables before the first request: ann may have started one exam
InitTables ==
    \E started \in {{}} \cup {{e} : e \in ExamIds} :
        db = [attempts |-> [k \in {<<e, "ann">> : e \in started} |-> StartedAttempt("ann")],
              audios |-> <<>>]

---------------------------------------------------------------------------
(* submit_attempt, one request after the other.  web.clock is the time     *)
(* timezone.now() gives; web.last is the last request and its response.    *)

Init ==
    /\ InitTables
    /\ web = [clock |-> 0,
              last |-> [req |-> NoRequest, resp |-> Response(0, "none"), scored |-> FALSE]]
    /\ norm = NormIdle
    /\ scorer = ScorerIdle

HandleSubmitAttempt ==
    /\ web.clock < MaxRequests
    /\ \E req \in Requests :
        \E r \in {SubmitAttempt(db, req, web.clock + 1)} :
            /\ db' = r.tables
            /\ web' = [clock |-> web.clock + 1,
                       last |-> [req |-> req, resp |-> r.resp, scored |-> r.scored]]
    /\ UNCHANGED <<norm, scorer>>

Next == HandleSubmitAttempt

Spec == Init /\ [][Next]_vars

---------------------------------------------------------------------------
(* submit_attempt, requests handled at the same time.  Each statement that *)
(* reaches the database is a step of its own: the get_or_create of line    *)
(* 30, the uploads of lines 55-75 and the save of line 92.  The handler    *)
(* opens no transaction and takes no lock.                                 *)

Procs == 1..NumProcs

ConcRequests ==
    {Request("POST", "ann", 1, PostRight, <<>>),
     Request("POST", "ann", 1, PostHalf, <<>>),
     Request("POST", "ann", 4, PostSpoken, OneAudio),
     Request("POST", "ann", 4, PostSpoken, Retake)}

InitConc ==
    /\ InitTables
    /\ web = [clock |-> 0,
              procs |-> [p \in Procs |->
                            [pc |-> "idle", req |-> NoRequest, attempt |-> Null,
                             resp |-> Response(0, "none"), scored |-> FALSE]]]
    /\ norm = NormIdle
    /\ scorer = ScorerIdle

\* lines 14-41
ReqBegin(p) ==
    /\ web.procs[p].pc = "idle"
    /\ \E req \in ConcRequests :
        \E b \in {Begin(db, req, web.clock + 1)} :
            /\ db' = b.tables
            /\ web' = [clock |-> web.clock + 1,
                       procs |-> [web.procs EXCEPT ![p] =
                           [pc |-> IF b.resp.status = 0 THEN "accepted" ELSE "done",
                            req |-> req, attempt |-> b.attempt, resp |-> b.resp,
                            scored |-> FALSE]]]
    /\ UNCHANGED <<norm, scorer>>

\* lines 43-75
ReqUploads(p) ==
    /\ web.procs[p].pc = "accepted"
    /\ \E u \in {Uploads(db, web.procs[p].req)} :
           /\ db' = u.tables
           /\ web' = [web EXCEPT !.procs[p].pc = IF u.resp.status = 0 THEN "uploaded" ELSE "done",
                                 !.procs[p].resp = u.resp]
    /\ UNCHANGED <<norm, scorer>>

\* lines 77-98
ReqSave(p) ==
    /\ web.procs[p].pc = "uploaded"
    /\ \E r \in {Save(db, web.procs[p].req, web.procs[p].attempt[1], web.clock)} :
           /\ db' = r.tables
           /\ web' = [web EXCEPT !.procs[p].pc = "done", !.procs[p].resp = r.resp,
                                 !.procs[p].scored = r.scored]
    /\ UNCHANGED <<norm, scorer>>

NextConc == \E p \in Procs : ReqBegin(p) \/ ReqUploads(p) \/ ReqSave(p)

SpecConc == InitConc /\ [][NextConc]_vars

---------------------------------------------------------------------------
(* Properties of calculate_auto_score (under SpecScore).                   *)

\* the band scores 0.0, 0.5, ..., 9.0
Bands == {HalfBands(h) : h \in 0..18}

Scored == scorer.pc = "done"

\* the claim's test for one subquestion: its key is in the mapping and the
\* submitted value normalises to the token of the correct answer
Matches(subq, answers) ==
    /\ QKey(subq.id) \in DOMAIN answers
    /\ NormalizeAnswer(answers[QKey(subq.id)]).val = NormalizeAnswer(subq.correct_answer).val

MatchCount(units, answers) ==
    Cardinality({i \in 1..Len(units) : Matches(units[i], answers)})

\* C1: for a reading or listening exam (any number of subquestions) and any
\* answer mapping, calculate_auto_score returns without raising a score s
\* with 0.0 <= s <= 9.0 and 2 * s an integer.
C1_ScoreIsBand ==
    (Scored /\ scorer.exam.section_type \in {"reading", "listening"})
        => /\ scorer.ret.exc = "none"
           /\ scorer.ret.score \in Bands

\* C1 witness: 2 of 3 right on a reading exam, scored 6.5
C1_Witness ==
    /\ Scored
    /\ scorer.exam.section_type = "reading"
    /\ scorer.ret.total_questions = 3
    /\ scorer.ret.correct_count = 2
    /\ scorer.ret.score = HalfBands(13)

\* C2: with at least one subquestion, every key present and every submitted
\* value normalising to the token of the correct answer, the score is 9.0.
C2_AllCorrectIsNine ==
    (/\ Scored
     /\ Len(LeafUnits(scorer.exam)) >= 1
     /\ MatchCount(LeafUnits(scorer.exam), scorer.answers) = Len(LeafUnits(scorer.exam)))
        => scorer.ret.score = HalfBands(18)

\* C2 witness: a listening exam of more than one subquestion, all answered
\* right in shapes that differ from the stored letter
C2_Witness ==
    /\ Scored
    /\ scorer.exam.section_type = "listening"
    /\ Len(LeafUnits(scorer.exam)) >= 3
    /\ MatchCount(LeafUnits(scorer.exam), scorer.answers) = Len(LeafUnits(scorer.exam))
    /\ scorer.answers[QKey(1)] = PyStr(<<"B">>)
    /\ scorer.ret.score = HalfBands(18)

\* C3: when no subquestion counts as correct (there is none, or every answer
\* is wrong or absent) the score is 0.0, and nothing is raised.
C3_NoneCorrectIsZero ==
    (Scored /\ MatchCount(LeafUnits(scorer.exam), scorer.answers) = 0)
        => /\ scorer.ret.exc = "none"
           /\ scorer.ret.score = FZero

\* C3 witness: two subquestions, one answered wrong and one not answered
C3_Witness ==
    /\ Scored
    /\ scorer.exam.section_type = "reading"
    /\ Len(LeafUnits(scorer.exam)) = 2
    /\ DOMAIN scorer.answers = {QKey(1)}
    /\ MatchCount(LeafUnits(scorer.exam), scorer.answers) = 0
    /\ scorer.ret.score = FZero

\* n / d rounded to the nearest integer, an exact half to the even one
RoundHalfEven(n, d) ==
    LET q == n \div d
        r == n % d
    IN  IF 2 * r < d THEN q
        ELSE IF 2 * r > d THEN q + 1
        ELSE IF q % 2 = 0 THEN q ELSE q + 1

\* a number of half bands, at most the 18 of band 9.0
Capped(h) == IF h <= 18 THEN h ELSE 18

\* C4: for total >= 1 the score is min(9.0, r / 2), r being 20 * correct /
\* total rounded to the nearest integer, an exact half to the even integer.
C4_NearestHalfBand ==
    (Scored /\ scorer.ret.exc = "none" /\ scorer.ret.total_questions >= 1)
        => scorer.ret.score =
              HalfBands(Capped(RoundHalfEven(20 * scorer.ret.correct_count,
                                             scorer.ret.total_questions)))

\* a value that stands for no answer: None, "", [], or blanks only (in a
\* list: its first element)
IsBlank(v) ==
    \/ v.tag = "None"
    \/ v.v = <<>>
    \/ v.tag = "str" /\ \A i \in 1..Len(v.v) : v.v[i] = " "
    \/ v.tag = "list" /\ \A i \in 1..Len(v.v[1]) : v.v[1][i] = " "

\* C6: a subquestion is counted correct iff its key is in the mapping and
\* the two normalised tokens are equal; an absent key is never counted and
\* never raises; a subquestion with a missing or empty correct_answer is
\* counted only for a key that is present with a blank value.
C6_CountedIffMatches ==
    (Scored /\ scorer.exam.section_type \in {"reading", "listening"})
        => LET units == LeafUnits(scorer.exam)
               answers == scorer.answers
           IN  /\ scorer.ret.exc = "none"
               /\ scorer.ret.total_questions = Len(units)
               /\ scorer.ret.correct_count = MatchCount(units, answers)
               /\ scorer.ret.correct_count
                    <= Cardinality({i \in 1..Len(units) : QKey(units[i].id) \in DOMAIN answers})
               /\ (\A i \in 1..Len(units) : IsBlank(units[i].correct_answer))
                    => scorer.ret.correct_count =
                         Cardinality({i \in 1..Len(units) :
                                         /\ QKey(units[i].id) \in DOMAIN answers
                                         /\ IsBlank(answers[QKey(units[i].id)])})

\* C6 witness: two subquestions without a correct answer, the first
\* answered with "" and counted, the second not answered and not counted
C6_Witness ==
    /\ Scored
    /\ scorer.exam.section_type = "reading"
    /\ Len(LeafUnits(scorer.exam)) = 2
    /\ LeafUnits(scorer.exam)[1].correct_answer = PyNone
    /\ LeafUnits(scorer.exam)[2].correct_answer = PyStr(<<>>)
    /\ DOMAIN scorer.answers = {QKey(1)}
    /\ scorer.answers[QKey(1)] = PyStr(<<>>)
    /\ scorer.ret.correct_count = 1

---------------------------------------------------------------------------
(* Properties of normalize_answer (under SpecNorm).                        *)

\* C5: normalize_answer never raises and returns a token of length 0 or 1:
\* the empty token for None, "" and []; for a list the token of its first
\* element; else the lower-cased first character of the trimmed string, or
\* the empty token when nothing is left.  "B", ["b", "x"], " B " and "b2"
\* give "b".
C5_SingleCharacterToken ==
    norm.pc = "done"
        => /\ norm.ret.exc = "none"
           /\ Len(norm.ret.val) \in {0, 1}
           /\ ~Truthy(norm.ans) => norm.ret.val = <<>>
           /\ (norm.ans.tag = "list" /\ norm.ans.v # <<>>)
                => norm.ret.val = NormalizeAnswer(PyStr(norm.ans.v[1])).val
           /\ (norm.ans.tag = "str" /\ IsBlank(norm.ans)) => norm.ret.val = <<>>
           /\ norm.ans \in {PyStr(<<"B">>), PyList(<< <<"b">>, <<"x">> >>),
                            PyStr(<<" ", "B", " ">>), PyStr(<<"b", "2">>)}
                => norm.ret.val = <<"b">>

---------------------------------------------------------------------------
(* Properties of submit_attempt, one request after the other (under Spec). *)

\* a step that handles a request
Handled == web'.clock = web.clock + 1

KeyOf(req) == <<req.exam_id, req.user>>

\* the AttemptAudio rows of an attempt
AudiosOf(tables, key) ==
    [row \in {r \in DOMAIN tables.audios : <<r[1], r[2]>> = key} |-> tables.audios[row]]

\* the score columns of the row of `key`, NULL when there is no row
ScoresOf(tables, key) ==
    IF key \in DOMAIN tables.attempts
    THEN <<tables.attempts[key].reading_score, tables.attempts[key].listening_score,
           tables.attempts[key].total_score>>
    ELSE <<Null, Null, Null>>

\* the score calculate_auto_score gives the answers of a request
ComputedScore(req) ==
    CalculateAutoScore(ExamTable[req.exam_id], CollectAnswers(req.post, Len(req.post))).score

\* C7: an accepted request calls the scorer for reading and listening exams
\* only.  Reading: the attempt ends 'completed' with reading_score =
\* total_score = the computed score; listening: the same with
\* listening_score; writing and speaking: no score column changes and the
\* attempt ends 'submitted'.
C7_ScoredBySection ==
    [][(Handled /\ web'.last.resp.status = 200)
        => LET req == web'.last.req
               section == ExamTable[req.exam_id].section_type
               row == db'.attempts[KeyOf(req)]
           IN  /\ web'.last.scored <=> section \in {"reading", "listening"}
               /\ section = "reading"
                    => /\ row.status = "completed"
                       /\ row.reading_score = Some(ComputedScore(req))
                       /\ row.total_score = Some(ComputedScore(req))
               /\ section = "listening"
                    => /\ row.status = "completed"
                       /\ row.listening_score = Some(ComputedScore(req))
                       /\ row.total_score = Some(ComputedScore(req))
               /\ section \in {"writing", "speaking"}
                    => /\ row.status = "submitted"
                       /\ ScoresOf(db', KeyOf(req)) = ScoresOf(db, KeyOf(req))]_vars

\* C7 witness: ann's reading submission with one of two right, stored as
\* completed with reading_score = total_score = 5.0
C7_Witness ==
    /\ web.last.resp.status = 200
    /\ web.last.req = Request("POST", "ann", 1, PostHalf, <<>>)
    /\ web.last.scored
    /\ db.attempts[<<1, "ann">>].status = "completed"
    /\ db.attempts[<<1, "ann">>].reading_score = Some(HalfBands(10))
    /\ db.attempts[<<1, "ann">>].total_score = Some(HalfBands(10))

\* the row of the request's attempt and its audio rows are as they were
AttemptUntouched(req) ==
    /\ db'.attempts[KeyOf(req)] = db.attempts[KeyOf(req)]
    /\ AudiosOf(db', KeyOf(req)) = AudiosOf(db, KeyOf(req))

\* the request comes from a student whose attempt for the exam is already
\* 'submitted' or 'completed'
AfterSubmission(req) ==
    /\ Role(req.user) = "student"
    /\ KeyOf(req) \in DOMAIN db.attempts
    /\ db.attempts[KeyOf(req)].status \in {"submitted", "completed"}

\* C9: once the attempt of a student for an exam is 'submitted' or
\* 'completed', every later POST by that student for that exam gets the
\* 400 'Attempt already submitted' response, and every later request of any
\* method leaves the attempt's row and its audio rows as they were.
C9_ResubmitRejected ==
    [][(Handled /\ AfterSubmission(web'.last.req))
        => /\ web'.last.req.method = "POST"
                => web'.last.resp = Response(400, "Attempt already submitted")
           /\ AttemptUntouched(web'.last.req)]_vars

\* C9 as stated: every later request by that student for that exam,
\* whatever its method, gets the 400 'Attempt already submitted' response
\* and leaves the attempt's row and its audio rows as they were.
C9_EveryRequestRejected ==
    [][(Handled /\ AfterSubmission(web'.last.req))
        => /\ web'.last.resp = Response(400, "Attempt already submitted")
           /\ AttemptUntouched(web'.last.req)]_vars

\* C9 witness: ann's speaking attempt, submitted with an upload, and a
\* second submission of it answered 400
C9_Witness ==
    /\ web.last.resp = Response(400, "Attempt already submitted")
    /\ web.last.req = Request("POST", "ann", 4, PostSpoken, Retake)
    /\ db.attempts[<<4, "ann">>].status = "submitted"
    /\ db.audios = (<<4, "ann", 1>> :> "a.webm")

\* C10: a request answered 405, 403, 400 or 500 leaves the tables as they
\* were: no Attempt or AttemptAudio row is made or changed.
C10_ErrorsChangeNothing ==
    [][(Handled /\ web'.last.resp.status \in {405, 403, 400, 500}) => db' = db]_vars

---------------------------------------------------------------------------
(* Properties of submit_attempt, requests at the same time (under          *)
(* SpecConc).                                                              *)

\* the requests for one exam and student that were answered `status`
Answered(key, status) ==
    {p \in Procs : /\ web.procs[p].pc = "done"
                   /\ KeyOf(web.procs[p].req) = key
                   /\ web.procs[p].resp.status = status}

\* C8: of the requests for one exam and student, whatever the interleaving
\* and also when the attempt was 'in_progress', at most one is accepted,
\* scored and written; every other one is answered 400.
C8_ScoredAtMostOnce ==
    \A e \in ExamIds :
        /\ Cardinality(Answered(<<e, "ann">>, 200)) <= 1
        /\ \A p \in Procs :
              (web.procs[p].pc = "done" /\ KeyOf(web.procs[p].req) = <<e, "ann">>)
                  => web.procs[p].resp.status \in {200, 400}

=============================================================================
